---------------------------- MODULE Spec2Model ----------------------------
(***************************************************************************)
(* FAISSDocumentRepository (src/app/infrastructure/repositories.py): a      *)
(* SQLite table `documents (id TEXT PRIMARY KEY, content TEXT NOT NULL)`    *)
(* whose implicit rowid is the handle under which the document's vector is  *)
(* stored in a FAISS IndexIDMap2(IndexFlatL2), and the index file that      *)
(* _save_index writes after every mutation.                                 *)
(*                                                                          *)
(* Spec       : the calls of one repository instance, one after the other   *)
(*              (each call runs to completion), plus process restarts;      *)
(*              every save is given a vector of the right length.           *)
(* SpecInputs : Spec with saves of vectors of any length.                   *)
(* SpecConc   : requests of the HTTP layer running concurrently; every      *)
(*              request builds its own repository (get_doc_repo) and its    *)
(*              statements interleave with the other request's.             *)
(* SpecCrash  : one request at a time, each on its own repository; the      *)
(*              process may be killed between two statements.               *)
(* SpecApi    : the index, search and delete use cases and endpoints        *)
(*              (use_cases.py, api.py), one call at a time.                 *)
(* SpecAuth   : registration and login, use cases and endpoints, over the   *)
(*              users and refresh_tokens tables, one call at a time.        *)
(***************************************************************************)
EXTENDS Integers, Sequences, FiniteSets, TLC

VARIABLES documents, index, index_file, lastCall, req, nreq,
          users, refresh_tokens, response

vars ==
    <<documents, index, index_file, lastCall, req, nreq,
      users, refresh_tokens, response>>

\* The users table, the refresh_tokens table and the record of the last call
\* of a use case or an endpoint: the repository's own calls leave them alone.
apiVars == <<users, refresh_tokens, response>>

-----------------------------------------------------------------------------
(* Bounds of the model.                                                     *)

\* Stand-in for self.dimension (1536): the length of a well-formed vector.
dimension == 1

\* save is not started once the table's next rowid would exceed this.
MaxRowid == 2

\* save is not started once the index holds this many vectors.
MaxEntries == 2

\* Number of requests the concurrent specification starts.
MaxRequests == 3

\* No login is started once this many refresh tokens are stored.
MaxLogins == 2

DocIds == {"d1", "d2"}

Contents == {"x", "y"}

Procs == {"p1", "p2"}

\* Raw (float64) coordinates, in units of half a float32 ulp.
Coords == {1, 2}

\* A vector of the wrong length (one coordinate too many).
WrongVector == [i \in 1..(dimension + 1) |-> 0]

\* The embeddings of the right length.
WellFormed == [1..dimension -> Coords]

\* Embeddings a caller can pass: every well-formed one and a malformed one.
Embeddings == WellFormed \cup {WrongVector}

\* Values of top_k (the HTTP layer admits 1..10).
TopKs == {1, 2}

-----------------------------------------------------------------------------
(* SQLite: the documents table. A row is [rowid, id, content].              *)

RowIds(rs) == {r.rowid : r \in rs}

\* The largest rowid in the table, 0 for an empty table.
MaxRowidOf(rs) ==
    IF rs = {} THEN 0
    ELSE CHOOSE m \in RowIds(rs) : \A n \in RowIds(rs) : n <= m

\* The rowid SQLite gives a new row of a table without INTEGER PRIMARY KEY:
\* one more than the largest rowid in the table. It is chosen before the
\* conflicting row of an INSERT OR REPLACE is deleted.
NewRowid(rs) == MaxRowidOf(rs) + 1

\* INSERT OR REPLACE INTO documents (id, content) VALUES (?, ?): the row with
\* the same primary key is deleted and a new row is inserted under a new rowid.
InsertOrReplace(rs, id, content) ==
    {r \in rs : r.id # id}
        \cup {[rowid |-> NewRowid(rs), id |-> id, content |-> content]}

HasRow(rs, id) == \E r \in rs : r.id = id

RowOf(rs, id) == CHOOSE r \in rs : r.id = id

\* SELECT rowid FROM documents WHERE id = ?   (0 stands for "no row").
SelectRowid(rs, id) == IF HasRow(rs, id) THEN RowOf(rs, id).rowid ELSE 0

\* DELETE FROM documents WHERE id = ?
DeleteRow(rs, id) == {r \in rs : r.id # id}

HasRowid(rs, h) == \E r \in rs : r.rowid = h

\* SELECT id, content FROM documents WHERE rowid = ?
SelectByRowid(rs, h) == CHOOSE r \in rs : r.rowid = h

-----------------------------------------------------------------------------
(* FAISS: IndexIDMap2 over IndexFlatL2. The index is the sequence of its    *)
(* entries in insertion order; an entry is [id, vec, doc], where doc is a   *)
(* history tag (the document the vector was saved for) that no operation    *)
(* reads.                                                                   *)

\* astype("float32"): representable values are the even coordinates; an odd
\* one lies halfway between two of them and goes to the one whose mantissa is
\* even.
Float32(x) ==
    IF x % 2 = 0 THEN x
    ELSE IF ((x - 1) \div 2) % 2 = 0 THEN x - 1 ELSE x + 1

AsFloat32(v) == [i \in 1..Len(v) |-> Float32(v[i])]

\* faiss.IndexIDMap2(faiss.IndexFlatL2(self.dimension))
EmptyIndex == <<>>

\* index.ntotal
ntotal(ix) == Len(ix)

\* index.add_with_ids(x, ids) with one vector of the right length: the vector
\* is appended, whether or not the id is already in the index.
add_with_ids(ix, v, h, doc) == Append(ix, [id |-> h, vec |-> v, doc |-> doc])

\* index.remove_ids(ids): every entry carrying the id is removed.
remove_ids(ix, h) == SelectSeq(ix, LAMBDA e : e.id # h)

RECURSIVE SumSq(_, _, _)
SumSq(a, b, i) ==
    IF i = 0 THEN 0 ELSE (a[i] - b[i]) * (a[i] - b[i]) + SumSq(a, b, i - 1)

\* IndexFlatL2's metric: the squared Euclidean distance.
L2(a, b) == SumSq(a, b, Len(a))

\* Position p is reported before position p2: smaller distance first, equal
\* distances in insertion order.
Before(ix, q, p, p2) ==
    \/ L2(ix[p].vec, q) < L2(ix[p2].vec, q)
    \/ L2(ix[p].vec, q) = L2(ix[p2].vec, q) /\ p < p2

\* The position of the i-th nearest entry.
Nearest(ix, q, i) ==
    CHOOSE p \in 1..Len(ix) :
        Cardinality({p2 \in 1..Len(ix) : Before(ix, q, p2, p)}) = i - 1

\* A search that reports one pair more than it was asked for.
search_one_more(ix, q, k) ==
    [i \in 1..(k + 1) |->
        IF i <= Len(ix)
        THEN LET p == Nearest(ix, q, i)
             IN  [label |-> ix[p].id, dist |-> L2(ix[p].vec, q), pos |-> p]
        ELSE [label |-> -1, dist |-> -1, pos |-> 0]]

\* index.search(x, k): exactly k (label, distance) pairs in ascending distance;
\* when the index holds fewer than k vectors the rest have label -1. pos is
\* the position of the entry that produced the pair (0 for a filler).
search(ix, q, k) ==
    [i \in 1..k |->
        IF i <= Len(ix)
        THEN LET p == Nearest(ix, q, i)
             IN  [label |-> ix[p].id, dist |-> L2(ix[p].vec, q), pos |-> p]
        ELSE [label |-> -1, dist |-> -1, pos |-> 0]]

\* The index file: no file, or IndexFlat's vector array and the id map.
NoFile == [exists |-> FALSE, xb |-> <<>>, id_map |-> <<>>, docs |-> <<>>]

\* faiss.write_index(index, path)
write_index(ix) ==
    [exists |-> TRUE,
     xb |-> [i \in 1..Len(ix) |-> ix[i].vec],
     id_map |-> [i \in 1..Len(ix) |-> ix[i].id],
     docs |-> [i \in 1..Len(ix) |-> ix[i].doc]]

\* faiss.read_index(path)
read_index(f) ==
    [i \in 1..Len(f.id_map) |->
        [id |-> f.id_map[i], vec |-> f.xb[i], doc |-> f.docs[i]]]

\* _load_or_create_index
_load_or_create_index(f) == IF f.exists THEN read_index(f) ELSE EmptyIndex

\* _save_index
_save_index(ix) == write_index(ix)


-----------------------------------------------------------------------------
(* FAISSDocumentRepository, on the table rs, the index ix and the file f.   *)

\* One iteration of find_similar's loop: a filler (-1) or a handle without a
\* row adds nothing, otherwise the row's id and content with the distance.
\* pos records which index entry produced the result.
ResolveHit(rs, hit) ==
    IF hit.label = -1 THEN <<>>
    ELSE IF HasRowid(rs, hit.label)
    THEN <<[id |-> SelectByRowid(rs, hit.label).id,
            content |-> SelectByRowid(rs, hit.label).content,
            score |-> hit.dist,
            pos |-> hit.pos]>>
    ELSE <<>>

RECURSIVE CollectStop(_, _, _)
\* A loop that ends at the first hit that adds nothing (break for continue).
CollectStop(rs, hits, i) ==
    IF i > Len(hits) THEN <<>>
    ELSE IF ResolveHit(rs, hits[i]) = <<>> THEN <<>>
    ELSE ResolveHit(rs, hits[i]) \o CollectStop(rs, hits, i + 1)

RECURSIVE Collect(_, _, _)
\* find_similar's loop over hits[i], hits[i+1], ...
Collect(rs, hits, i) ==
    IF i > Len(hits) THEN <<>>
    ELSE ResolveHit(rs, hits[i]) \o Collect(rs, hits, i + 1)

\* A Document that accepts any content.
DocumentAny(content) == TRUE

\* Document.__init__ rejects empty content.
DocumentOk(content) == content # ""

\* find_similar(embedding, top_k): [out, res].
find_similar(ix, rs, emb, k) ==
    IF ntotal(ix) = 0 THEN [out |-> "ok", res |-> <<>>]
    ELSE IF Len(emb) # dimension THEN [out |-> "AssertionError", res |-> <<>>]
    ELSE LET res == Collect(rs, search(ix, AsFloat32(emb), k), 1)
         IN  IF \A i \in 1..Len(res) : DocumentOk(res[i].content)
             THEN [out |-> "ok", res |-> res]
             ELSE [out |-> "ValueError", res |-> <<>>]

\* save(document): [documents, index, index_file, out]. The row is committed
\* before the vector is added; a vector of the wrong length makes
\* add_with_ids fail after the commit.
save(rs, ix, f, id, content, emb) ==
    LET h == NewRowid(rs)
        rs2 == InsertOrReplace(rs, id, content)
    IN  IF Len(emb) = dimension
        THEN LET ix2 == add_with_ids(ix, AsFloat32(emb), h, id)
             IN  [documents |-> rs2, index |-> ix2,
                  index_file |-> _save_index(ix2), out |-> "ok"]
        ELSE [documents |-> rs2, index |-> ix, index_file |-> f,
              out |-> "AssertionError"]

\* A delete that leaves the index file as it was (no _save_index).
delete_no_snapshot(rs, ix, f, id) ==
    LET h == SelectRowid(rs, id)
    IN  IF h = 0
        THEN [documents |-> rs, index |-> ix, index_file |-> f, out |-> "ok"]
        ELSE [documents |-> DeleteRow(rs, id), index |-> remove_ids(ix, h),
              index_file |-> f, out |-> "ok"]

\* A delete that writes the index file whether or not it found a row.
delete_always_snapshot(rs, ix, f, id) ==
    LET ix2 == remove_ids(ix, SelectRowid(rs, id))
    IN  [documents |-> DeleteRow(rs, id), index |-> ix2,
         index_file |-> _save_index(ix2), out |-> "ok"]

\* delete(doc_id): [documents, index, index_file, out]. Nothing happens
\* without a row.
delete(rs, ix, f, id) ==
    LET h == SelectRowid(rs, id)
    IN  IF h = 0
        THEN [documents |-> rs, index |-> ix, index_file |-> f, out |-> "ok"]
        ELSE LET ix2 == remove_ids(ix, h)
             IN  [documents |-> DeleteRow(rs, id), index |-> ix2,
                  index_file |-> _save_index(ix2), out |-> "ok"]

\* find_by_id is not overridden: IDocumentRepository.find_by_id raises.
find_by_id(rs, id) == [out |-> "NotImplementedError", content |-> ""]

-----------------------------------------------------------------------------
(* The record of the last call (history; no operation reads it).            *)

NoCall ==
    [op |-> "none", id |-> "", content |-> "", q |-> <<>>, k |-> 0,
     out |-> "", res |-> <<>>, pre |-> <<>>, again |-> FALSE,
     len |-> 0, old |-> 0, h |-> 0]

\* again: the call before this one was the same operation on the same id.
\* A save also records len, the length of the vector it was given, old, the
\* handle its document had before the call (0 for none), and h, the handle
\* its vector was to be added under; a find_similar records len too.
Call(op, id, out) ==
    [NoCall EXCEPT !.op = op, !.id = id, !.out = out,
                   !.again = (lastCall.op = op /\ lastCall.id = id)]

\* A request of the HTTP layer: its operation and arguments, the statement it
\* is at (pc), the index of its own repository instance, the handle it read,
\* the search hits and the loop position, its results and outcome. Three
\* fields are history: old, the handle the document had before this save
\* replaced its row (0 for none), sawHalf, whether the request has read the
\* table for a document while a save of that document by the other request
\* had committed its row and not yet written the index file, and retry,
\* whether this save repeats the save of the same document that the process
\* was killed in after it had committed the row.
NoReq ==
    [pc |-> "idle", op |-> "none", id |-> "", content |-> "", emb |-> <<>>,
     k |-> 0, index |-> <<>>, h |-> 0, hits |-> <<>>, i |-> 0, res |-> <<>>,
     out |-> "", old |-> 0, sawHalf |-> FALSE, retry |-> FALSE]

\* The record of the last call of a use case or an endpoint (history): the
\* layer that was called ("usecase" or "http"), the operation, its arguments,
\* the HTTP status and detail or the exception that left the use case, the
\* value returned, whether a document repository was constructed for the
\* request, and the repository methods that were invoked, in order.
\* embed_ok tells whether the embedding service would answer the call.
NoResponse ==
    [layer |-> "none", op |-> "none", token |-> "", content |-> "",
     id |-> "", email |-> "", password |-> "", name |-> "", k |-> 0,
     embed_ok |-> TRUE, status |-> 0, out |-> "", detail |-> "",
     value |-> <<>>, repo |-> FALSE, calls |-> <<>>]

Init ==
    /\ documents = {}
    /\ index = EmptyIndex
    /\ index_file = NoFile
    /\ lastCall = NoCall
    /\ req = [p \in Procs |-> NoReq]
    /\ nreq = 0
    /\ users = {}
    /\ refresh_tokens = {}
    /\ response = NoResponse

-----------------------------------------------------------------------------
(* Spec: the calls of one repository instance, each run to completion.      *)

CallSave(id, content, emb) ==
    /\ NewRowid(documents) <= MaxRowid
    /\ ntotal(index) < MaxEntries
    /\ LET r == save(documents, index, index_file, id, content, emb)
       IN  /\ documents' = r.documents
           /\ index' = r.index
           /\ index_file' = r.index_file
           /\ lastCall' = [Call("save", id, r.out)
                               EXCEPT !.len = Len(emb),
                                      !.old = SelectRowid(documents, id),
                                      !.h = NewRowid(documents)]
    /\ UNCHANGED <<req, nreq, apiVars>>

CallDelete(id) ==
    /\ LET r == delete(documents, index, index_file, id)
       IN  /\ documents' = r.documents
           /\ index' = r.index
           /\ index_file' = r.index_file
           /\ lastCall' = Call("delete", id, r.out)
    /\ UNCHANGED <<req, nreq, apiVars>>

CallFindSimilar(emb, k) ==
    /\ LET r == find_similar(index, documents, emb, k)
       IN  lastCall' = [Call("find_similar", "", r.out)
                            EXCEPT !.q = emb, !.k = k, !.res = r.res,
                                   !.len = Len(emb)]
    /\ UNCHANGED <<documents, index, index_file, req, nreq, apiVars>>

CallFindById(id) ==
    /\ LET r == find_by_id(documents, id)
       IN  lastCall' = [Call("find_by_id", id, r.out)
                            EXCEPT !.content = r.content]
    /\ UNCHANGED <<documents, index, index_file, req, nreq, apiVars>>

\* The process ends and a new FAISSDocumentRepository is constructed.
Restart ==
    /\ lastCall.op # "restart"
    /\ index' = _load_or_create_index(index_file)
    /\ lastCall' = [Call("restart", "", "ok") EXCEPT !.pre = index]
    /\ UNCHANGED <<documents, index_file, req, nreq, apiVars>>

\* Every save is given an embedding of the right length, so every save
\* returns; a query may have any length.
Next ==
    \/ \E id \in DocIds, c \in Contents, e \in WellFormed : CallSave(id, c, e)
    \/ \E id \in DocIds : CallDelete(id)
    \/ \E e \in Embeddings, k \in TopKs : CallFindSimilar(e, k)
    \/ \E id \in DocIds : CallFindById(id)
    \/ Restart

Spec == Init /\ [][Next]_vars

\* The same calls, a save too with an embedding of any length.
NextInputs ==
    \/ \E id \in DocIds, c \in Contents, e \in Embeddings : CallSave(id, c, e)
    \/ \E id \in DocIds : CallDelete(id)
    \/ \E e \in Embeddings, k \in TopKs : CallFindSimilar(e, k)
    \/ \E id \in DocIds : CallFindById(id)
    \/ Restart

SpecInputs == Init /\ [][NextInputs]_vars

-----------------------------------------------------------------------------
(* SpecConc: requests of the HTTP layer. Depends(get_doc_repo) constructs a *)
(* FAISSDocumentRepository for every request, which loads the index file;   *)
(* the statements of save, delete and find_similar then run one at a time,  *)
(* interleaved with the other request's. An INSERT or DELETE and the commit *)
(* that follows it are one step: the change is visible to the other         *)
(* connection from the commit on.                                           *)

Free(p) == req[p].pc \in {"idle", "done"} /\ nreq < MaxRequests

\* get_doc_repo: FAISSDocumentRepository() -> _load_or_create_index
get_doc_repo(op, id, content, emb, k, pc) ==
    [NoReq EXCEPT !.op = op, !.id = id, !.content = content, !.emb = emb,
                  !.k = k, !.pc = pc,
                  !.index = _load_or_create_index(index_file)]

seqVars == <<index, lastCall>>

\* The row of a save by another request is committed and its vector is not
\* yet in the index file.
HalfWritten(p) == req[p].op = "save" /\ req[p].pc \in {"add", "snapshot"}

BeginSave(p, id, content, emb) ==
    /\ Free(p)
    /\ req' = [req EXCEPT ![p] =
                   [get_doc_repo("save", id, content, emb, 0, "upsert")
                        EXCEPT !.retry = /\ req[p].op = "save"
                                         /\ req[p].out = "crashed"
                                         /\ req[p].h # 0
                                         /\ req[p].id = id]]
    /\ nreq' = nreq + 1
    /\ UNCHANGED <<documents, index_file, seqVars, apiVars>>

\* A save whose INSERT OR REPLACE is not committed: the handle is read, the
\* table is as it was.
SaveUpsertNoCommit(p) ==
    /\ req[p].pc = "upsert"
    /\ req' = [req EXCEPT ![p].h = NewRowid(documents),
                          ![p].old = SelectRowid(documents, req[p].id),
                          ![p].pc = "add"]
    /\ UNCHANGED <<documents, index_file, nreq, seqVars, apiVars>>

\* save: INSERT OR REPLACE, lastrowid, commit
SaveUpsert(p) ==
    /\ req[p].pc = "upsert"
    /\ documents' = InsertOrReplace(documents, req[p].id, req[p].content)
    /\ req' = [req EXCEPT ![p].h = NewRowid(documents),
                          ![p].old = SelectRowid(documents, req[p].id),
                          ![p].pc = "add"]
    /\ UNCHANGED <<index_file, nreq, seqVars, apiVars>>

\* save: add_with_ids
SaveAdd(p) ==
    /\ req[p].pc = "add"
    /\ req' = IF Len(req[p].emb) = dimension
              THEN [req EXCEPT ![p].index =
                                   add_with_ids(req[p].index,
                                                AsFloat32(req[p].emb),
                                                req[p].h, req[p].id),
                               ![p].pc = "snapshot"]
              ELSE [req EXCEPT ![p].out = "AssertionError", ![p].pc = "done"]
    /\ UNCHANGED <<documents, index_file, nreq, seqVars, apiVars>>

\* save, delete: _save_index, return
Snapshot(p) ==
    /\ req[p].pc = "snapshot"
    /\ index_file' = _save_index(req[p].index)
    /\ req' = [req EXCEPT ![p].out = "ok", ![p].pc = "done"]
    /\ UNCHANGED <<documents, nreq, seqVars, apiVars>>

BeginDelete(p, id) ==
    /\ Free(p)
    /\ req' = [req EXCEPT ![p] =
                   get_doc_repo("delete", id, "", <<>>, 0, "select")]
    /\ nreq' = nreq + 1
    /\ UNCHANGED <<documents, index_file, seqVars, apiVars>>

\* delete: SELECT rowid, return if there is none
DeleteSelect(p) ==
    /\ req[p].pc = "select"
    /\ req' = IF SelectRowid(documents, req[p].id) = 0
              THEN [req EXCEPT ![p].out = "ok", ![p].pc = "done"]
              ELSE [req EXCEPT ![p].h = SelectRowid(documents, req[p].id),
                               ![p].pc = "remove",
                               ![p].sawHalf =
                                   \E o \in Procs \ {p} :
                                       /\ HalfWritten(o)
                                       /\ req[o].id = req[p].id]
    /\ UNCHANGED <<documents, index_file, nreq, seqVars, apiVars>>

\* delete: remove_ids
DeleteRemove(p) ==
    /\ req[p].pc = "remove"
    /\ req' = [req EXCEPT ![p].index = remove_ids(req[p].index, req[p].h),
                          ![p].pc = "delrow"]
    /\ UNCHANGED <<documents, index_file, nreq, seqVars, apiVars>>

\* delete: DELETE FROM documents, commit
DeleteCommit(p) ==
    /\ req[p].pc = "delrow"
    /\ documents' = DeleteRow(documents, req[p].id)
    /\ req' = [req EXCEPT ![p].pc = "snapshot"]
    /\ UNCHANGED <<index_file, nreq, seqVars, apiVars>>

BeginFind(p, emb, k) ==
    /\ Free(p)
    /\ req' = [req EXCEPT ![p] =
                   get_doc_repo("find_similar", "", "", emb, k, "search")]
    /\ nreq' = nreq + 1
    /\ UNCHANGED <<documents, index_file, seqVars, apiVars>>

\* find_similar: the ntotal test and index.search
FindSearch(p) ==
    /\ req[p].pc = "search"
    /\ req' = IF ntotal(req[p].index) = 0
              THEN [req EXCEPT ![p].out = "ok", ![p].pc = "done"]
              ELSE IF Len(req[p].emb) # dimension
              THEN [req EXCEPT ![p].out = "AssertionError", ![p].pc = "done"]
              ELSE [req EXCEPT ![p].hits =
                                   search(req[p].index, AsFloat32(req[p].emb),
                                          req[p].k),
                               ![p].i = 1,
                               ![p].pc = "lookup"]
    /\ UNCHANGED <<documents, index_file, nreq, seqVars, apiVars>>

\* find_similar: one iteration of the loop (SELECT by rowid), return after
\* the last one
FindLookup(p) ==
    /\ req[p].pc = "lookup"
    /\ LET hit == req[p].hits[req[p].i]
           doc == ResolveHit(documents, hit)
           bad == doc # <<>> /\ ~DocumentOk(doc[1].content)
           last == bad \/ req[p].i = Len(req[p].hits)
       IN  req' = [req EXCEPT
                      ![p].res = IF bad THEN <<>> ELSE req[p].res \o doc,
                      ![p].i = req[p].i + 1,
                      ![p].out = IF bad THEN "ValueError"
                                 ELSE IF last THEN "ok" ELSE "",
                      ![p].pc = IF last THEN "done" ELSE "lookup",
                      ![p].sawHalf =
                          \/ req[p].sawHalf
                          \/ \E o \in Procs \ {p} :
                                /\ HalfWritten(o)
                                /\ hit.label = req[o].old]
    /\ UNCHANGED <<documents, index_file, nreq, seqVars, apiVars>>

NextConc ==
    \E p \in Procs :
        \/ \E id \in DocIds, c \in Contents, e \in Embeddings :
               BeginSave(p, id, c, e)
        \/ SaveUpsert(p)
        \/ SaveAdd(p)
        \/ Snapshot(p)
        \/ \E id \in DocIds : BeginDelete(p, id)
        \/ DeleteSelect(p)
        \/ DeleteRemove(p)
        \/ DeleteCommit(p)
        \/ \E e \in Embeddings, k \in TopKs : BeginFind(p, e, k)
        \/ FindSearch(p)
        \/ FindLookup(p)

SpecConc == Init /\ [][NextConc]_vars

-----------------------------------------------------------------------------
(* SpecCrash: one request at a time, and the process may be killed between  *)
(* any two statements of a request. The next request constructs a new       *)
(* repository, which loads the index file, as a restarted process does.     *)

\* The process is killed while request p is under way: what is committed to
\* the table and written to the index file stays, the rest is lost.
Crash(p) ==
    /\ req[p].pc \notin {"idle", "done"}
    /\ req' = [req EXCEPT ![p].out = "crashed", ![p].pc = "done"]
    /\ UNCHANGED <<documents, index_file, nreq, seqVars, apiVars>>

\* Every save is given an embedding of the right length.
NextCrash ==
    \/ \E id \in DocIds, c \in Contents, e \in WellFormed :
           BeginSave("p1", id, c, e)
    \/ SaveUpsert("p1")
    \/ SaveAdd("p1")
    \/ Snapshot("p1")
    \/ \E id \in DocIds : BeginDelete("p1", id)
    \/ DeleteSelect("p1")
    \/ DeleteRemove("p1")
    \/ DeleteCommit("p1")
    \/ \E e \in Embeddings, k \in TopKs : BeginFind("p1", e, k)
    \/ FindSearch("p1")
    \/ FindLookup("p1")
    \/ Crash("p1")

SpecCrash == Init /\ [][NextCrash]_vars

-----------------------------------------------------------------------------
(* The use cases (src/app/application/use_cases.py) on a repository with    *)
(* table rs, index ix and file f. emb is what the embedding service does    *)
(* when it is called: it returns a vector or it raises.                     *)

\* The texts a caller submits as content or as query.
Texts == {"", "x"}

\* IEmbeddingService.create_embedding: a vector (of whatever length the
\* service answers with) or an exception.
EmbedResults ==
    {[ok |-> TRUE, vec |-> v] : v \in Embeddings}
        \cup {[ok |-> FALSE, vec |-> <<>>]}

\* What a use case hands back: the stores, the exception that left it ("ok"
\* for none), the id or the results it returned and the repository methods
\* it invoked.
Raised(rs, ix, f, out) ==
    [documents |-> rs, index |-> ix, index_file |-> f, out |-> out,
     id |-> "", value |-> <<>>, calls |-> <<>>]

\* An index use case that stores a zero vector when the embedding service
\* raises.
IndexWithZeroVector(rs, ix, f, content, emb, doc_id) ==
    LET vec == IF emb.ok THEN emb.vec ELSE [i \in 1..dimension |-> 0]
        r == save(rs, ix, f, doc_id, content, vec)
    IN  IF ~DocumentOk(content) THEN Raised(rs, ix, f, "ValueError")
        ELSE [documents |-> r.documents, index |-> r.index,
              index_file |-> r.index_file, out |-> r.out,
              id |-> IF r.out = "ok" THEN doc_id ELSE "",
              value |-> <<>>, calls |-> <<"save">>]

\* IndexDocumentUseCase.execute(content): create_embedding, Document(...),
\* repo.save, return document.id. doc_id is the uuid4 that Document draws.
IndexDocumentUseCase(rs, ix, f, content, emb, doc_id) ==
    LET r == save(rs, ix, f, doc_id, content, emb.vec)
    IN  IF ~emb.ok THEN Raised(rs, ix, f, "EmbeddingError")
        ELSE IF ~DocumentOk(content) THEN Raised(rs, ix, f, "ValueError")
        ELSE [documents |-> r.documents, index |-> r.index,
              index_file |-> r.index_file, out |-> r.out,
              id |-> IF r.out = "ok" THEN doc_id ELSE "",
              value |-> <<>>, calls |-> <<"save">>]

\* SearchDocumentsUseCase.execute(query, top_k): create_embedding,
\* repo.find_similar, the results as {id, content, score}.
SearchDocumentsUseCase(rs, ix, f, emb, top_k) ==
    LET r == find_similar(ix, rs, emb.vec, top_k)
    IN  IF ~emb.ok THEN Raised(rs, ix, f, "EmbeddingError")
        ELSE [Raised(rs, ix, f, r.out)
                  EXCEPT !.value = [i \in 1..Len(r.res) |->
                                       [id |-> r.res[i].id,
                                        content |-> r.res[i].content,
                                        score |-> r.res[i].score]],
                         !.calls = <<"find_similar">>]

\* DeleteDocumentUseCase.execute(doc_id_str): repo.delete
DeleteDocumentUseCase(rs, ix, f, doc_id) ==
    LET r == delete(rs, ix, f, doc_id)
    IN  [documents |-> r.documents, index |-> r.index,
         index_file |-> r.index_file, out |-> r.out,
         id |-> "", value |-> <<>>, calls |-> <<"delete">>]

-----------------------------------------------------------------------------
(* The document endpoints (src/app/interfaces/api.py).                      *)

\* What a request carries as its bearer token: no Authorization header, a
\* string that is no token, an access token past its expiry, a refresh
\* token, an access token.
Tokens == {"none", "garbage", "expired", "refresh", "access"}

\* decode_token's result for a token it does not accept.
None == [valid |-> FALSE, type |-> ""]

\* security.decode_token: the payload of a token that decodes, None for one
\* that does not.
decode_token(token) ==
    IF token \in {"refresh", "access"}
    THEN [valid |-> TRUE, type |-> token]
    ELSE None

\* A get_current_user that does not look at the token's type.
get_current_user_any_type(token) ==
    IF decode_token(token) = None THEN 401 ELSE 200

\* get_current_user: 401 unless the payload is there and of type "access"
\* (200 stands for "the dependency returns the payload").
get_current_user(token) ==
    IF decode_token(token) = None \/ decode_token(token).type # "access"
    THEN 401
    ELSE 200

\* Depends(oauth2_scheme) and then get_current_user: OAuth2PasswordBearer
\* answers 401 itself when the request has no bearer token.
Authenticate(token) == IF token = "none" THEN 401 ELSE get_current_user(token)

\* SearchRequest.top_k: Field(3, gt=0, le=10)
TopKValid(top_k) == top_k > 0 /\ top_k <= 10

\* Values of top_k a request may carry, valid or not.
RequestTopKs == {0, 1, 2, 11}

\* The uuid4 of a new Document: an id that no row and no vector carries.
NewIds(ix) ==
    {d \in DocIds :
        ~HasRow(documents, d) /\ \A p \in 1..Len(ix) : ix[p].doc # d}

Entered(layer, op, token, content, emb) ==
    [NoResponse EXCEPT !.layer = layer, !.op = op, !.token = token,
                       !.content = content, !.embed_ok = emb.ok]

\* The answer built from what the use case handed back.
Answered(e, r, good) ==
    [e EXCEPT !.status = IF r.out = "ok" THEN good ELSE 500,
              !.out = r.out, !.id = r.id, !.value = r.value,
              !.repo = TRUE, !.calls = r.calls]

Committed(r) ==
    /\ documents' = r.documents
    /\ index' = r.index
    /\ index_file' = r.index_file

\* What a request of the API leaves alone.
apiFrame == <<lastCall, req, nreq, users, refresh_tokens>>

\* POST /documents
index_document(token, content, emb, doc_id) ==
    /\ NewRowid(documents) <= MaxRowid
    /\ ntotal(_load_or_create_index(index_file)) < MaxEntries
    /\ LET e == Entered("http", "index", token, content, emb)
           ix == _load_or_create_index(index_file)
           r == IndexDocumentUseCase(documents, ix, index_file, content,
                                     emb, doc_id)
       IN  IF Authenticate(token) = 401
           THEN /\ response' = [e EXCEPT !.status = 401]
                /\ UNCHANGED <<documents, index, index_file>>
           ELSE IF content = ""
           THEN /\ response' = [e EXCEPT !.status = 422, !.repo = TRUE]
                /\ index' = ix
                /\ UNCHANGED <<documents, index_file>>
           ELSE /\ response' = Answered(e, r, 201)
                /\ Committed(r)
    /\ UNCHANGED apiFrame

\* POST /search
search_documents(token, query, top_k, emb) ==
    /\ LET e == [Entered("http", "search", token, query, emb)
                    EXCEPT !.k = top_k]
           ix == _load_or_create_index(index_file)
           r == SearchDocumentsUseCase(documents, ix, index_file, emb, top_k)
       IN  IF Authenticate(token) = 401
           THEN /\ response' = [e EXCEPT !.status = 401]
                /\ UNCHANGED <<documents, index, index_file>>
           ELSE IF query = "" \/ ~TopKValid(top_k)
           THEN /\ response' = [e EXCEPT !.status = 422, !.repo = TRUE]
                /\ index' = ix
                /\ UNCHANGED <<documents, index_file>>
           ELSE /\ response' = Answered(e, r, 200)
                /\ Committed(r)
    /\ UNCHANGED apiFrame

\* DELETE /documents/{document_id}
delete_document(token, document_id) ==
    /\ LET e == [NoResponse EXCEPT !.layer = "http", !.op = "delete",
                                   !.token = token, !.id = document_id]
           ix == _load_or_create_index(index_file)
           r == DeleteDocumentUseCase(documents, ix, index_file, document_id)
       IN  IF Authenticate(token) = 401
           THEN /\ response' = [e EXCEPT !.status = 401]
                /\ UNCHANGED <<documents, index, index_file>>
           ELSE /\ response' = [Answered(e, r, 204) EXCEPT !.id = document_id]
                /\ Committed(r)
    /\ UNCHANGED apiFrame

\* A direct call of IndexDocumentUseCase(repo, embed_svc).execute(content) on
\* a repository constructed for it.
ExecuteIndex(content, emb, doc_id) ==
    /\ NewRowid(documents) <= MaxRowid
    /\ ntotal(_load_or_create_index(index_file)) < MaxEntries
    /\ LET r == IndexDocumentUseCase(documents,
                                     _load_or_create_index(index_file),
                                     index_file, content, emb, doc_id)
       IN  /\ response' = [Answered(Entered("usecase", "index", "", content,
                                            emb), r, 0)
                               EXCEPT !.status = 0]
           /\ Committed(r)
    /\ UNCHANGED apiFrame

\* A direct call of SearchDocumentsUseCase(repo, embed_svc).execute.
ExecuteSearch(query, top_k, emb) ==
    /\ LET r == SearchDocumentsUseCase(documents,
                                       _load_or_create_index(index_file),
                                       index_file, emb, top_k)
       IN  /\ response' = [Answered(Entered("usecase", "search", "", query,
                                            emb), r, 0)
                               EXCEPT !.status = 0, !.k = top_k]
           /\ Committed(r)
    /\ UNCHANGED apiFrame

NextApi ==
    \/ \E t \in Tokens, c \in Texts, e \in EmbedResults :
           \E d \in NewIds(_load_or_create_index(index_file)) :
               index_document(t, c, e, d)
    \/ \E t \in Tokens, q \in Texts, k \in RequestTopKs, e \in EmbedResults :
           search_documents(t, q, k, e)
    \/ \E t \in Tokens, d \in DocIds : delete_document(t, d)
    \/ \E c \in Texts, e \in EmbedResults :
           \E d \in NewIds(_load_or_create_index(index_file)) :
               ExecuteIndex(c, e, d)
    \/ \E q \in Texts, k \in TopKs, e \in EmbedResults :
           ExecuteSearch(q, k, e)

SpecApi == Init /\ [][NextApi]_vars

-----------------------------------------------------------------------------
(* Registration and login: UserRepository and TokenRepository               *)
(* (repositories.py), RegisterUserUseCase and LoginUserUseCase              *)
(* (use_cases.py), POST /auth/register and POST /auth/login (api.py).       *)
(* A row of users is [id, email, name, hashed_password]; a row of           *)
(* refresh_tokens is [token, user_id].                                      *)

\* Well-formed addresses.
Emails == {"a@x.io", "b@x.io"}

Passwords == {"short", "password1"}

Names == {"A", "Ann", "Bob"}

\* The values uuid4 may give a new user.
UserIds == {"u1", "u2"}

\* len() of the passwords and names above.
len(str) ==
    CASE str = "A" -> 1
      [] str \in {"Ann", "Bob"} -> 3
      [] str = "short" -> 5
      [] str = "password1" -> 9

\* security.get_password_hash: a value from which the password cannot be
\* read off but against which a password can be verified.
get_password_hash(password) == [hash_of |-> password]

\* security.verify_password(plain, hashed)
verify_password(password, hashed_password) ==
    hashed_password = get_password_hash(password)

\* security.create_access_token(data)
create_access_token(user, iat) ==
    [type |-> "access", user_id |-> user.id, email |-> user.email,
     iat |-> iat]

\* security.create_refresh_token(data)
create_refresh_token(user, iat) ==
    [type |-> "refresh", user_id |-> user.id, email |-> user.email,
     iat |-> iat]

\* UserRepository.find_by_email: the rows with the email (none or one).
find_by_email(us, email) == {u \in us : u.email = email}

\* UserRepository.save: INSERT INTO users; id is the PRIMARY KEY and email
\* is UNIQUE.
UserSave(us, user) ==
    IF \E u \in us : u.id = user.id \/ u.email = user.email
    THEN [users |-> us, out |-> "IntegrityError"]
    ELSE [users |-> us \cup {user}, out |-> "ok"]

\* TokenRepository.save_refresh_token: INSERT INTO refresh_tokens; token is
\* the PRIMARY KEY.
save_refresh_token(toks, refresh_token, user_id) ==
    IF \E t \in toks : t.token = refresh_token
    THEN [refresh_tokens |-> toks, out |-> "IntegrityError"]
    ELSE [refresh_tokens |->
              toks \cup {[token |-> refresh_token, user_id |-> user_id]},
          out |-> "ok"]

EmailInUse == "El email ya está en uso."

InvalidCredentials == "Credenciales inválidas."

\* A registration that goes straight to the INSERT.
RegisterWithoutLookup(us, email, password, name, id) ==
    LET r == UserSave(us, [id |-> id, email |-> email, name |-> name,
                           hashed_password |-> get_password_hash(password)])
    IN  [users |-> r.users, out |-> r.out, detail |-> "",
         id |-> IF r.out = "ok" THEN id ELSE ""]

\* RegisterUserUseCase.execute(email, password, name); id is the uuid4 that
\* UserRepository.save draws.
RegisterUserUseCase(us, email, password, name, id) ==
    LET r == UserSave(us, [id |-> id, email |-> email, name |-> name,
                           hashed_password |-> get_password_hash(password)])
    IN  IF find_by_email(us, email) # {}
        THEN [users |-> us, out |-> "ValueError", detail |-> EmailInUse,
              id |-> ""]
        ELSE [users |-> r.users, out |-> r.out, detail |-> "",
              id |-> IF r.out = "ok" THEN id ELSE ""]

\* What a login that raises hands back.
LoginFailed(toks) ==
    [refresh_tokens |-> toks, out |-> "ValueError",
     detail |-> InvalidCredentials, value |-> <<>>]

\* What a login does from the token creation on.
IssueTokens(toks, user, iat) ==
    LET r == save_refresh_token(toks, create_refresh_token(user, iat),
                                user.id)
    IN  [refresh_tokens |-> r.refresh_tokens, out |-> r.out,
         detail |-> "",
         value |-> IF r.out = "ok"
                   THEN <<create_access_token(user, iat),
                          create_refresh_token(user, iat), user>>
                   ELSE <<>>]

\* A login that does not verify the password.
LoginWithoutVerify(us, toks, email, password, iat) ==
    IF find_by_email(us, email) = {} THEN LoginFailed(toks)
    ELSE IssueTokens(toks, CHOOSE u \in us : u.email = email, iat)

\* LoginUserUseCase.execute(email, password); iat is the time of the call.
LoginUserUseCase(us, toks, email, password, iat) ==
    IF find_by_email(us, email) = {} THEN LoginFailed(toks)
    ELSE LET user == CHOOSE u \in us : u.email = email
         IN  IF ~verify_password(password, user.hashed_password)
             THEN LoginFailed(toks)
             ELSE IssueTokens(toks, user, iat)

\* The time of a call: later than the time of every login before it.
Now == Cardinality(refresh_tokens) + 1

\* RegisterRequest: password min_length=8, name min_length=2.
RegisterRequestOk(password, name) == len(password) >= 8 /\ len(name) >= 2

\* What registration and login leave alone.
authFrame == <<documents, index, index_file, lastCall, req, nreq>>

AuthEntered(layer, op, email, password, name) ==
    [NoResponse EXCEPT !.layer = layer, !.op = op, !.email = email,
                       !.password = password, !.name = name]

\* RegisterUserUseCase(user_repo).execute(email, password, name)
ExecuteRegister(email, password, name, id) ==
    /\ LET r == RegisterUserUseCase(users, email, password, name, id)
       IN  /\ users' = r.users
           /\ response' = [AuthEntered("usecase", "register", email,
                                       password, name)
                               EXCEPT !.out = r.out, !.detail = r.detail,
                                      !.id = r.id]
    /\ UNCHANGED <<refresh_tokens, authFrame>>

\* POST /auth/register
register(email, password, name, id) ==
    /\ LET e == AuthEntered("http", "register", email, password, name)
           r == RegisterUserUseCase(users, email, password, name, id)
       IN  IF ~RegisterRequestOk(password, name)
           THEN /\ response' = [e EXCEPT !.status = 422]
                /\ UNCHANGED users
           ELSE /\ users' = r.users
                /\ response' =
                      [e EXCEPT !.out = r.out, !.id = r.id,
                                !.detail = r.detail,
                                !.status = CASE r.out = "ok" -> 201
                                             [] r.out = "ValueError" -> 400
                                             [] OTHER -> 500]
    /\ UNCHANGED <<refresh_tokens, authFrame>>

\* LoginUserUseCase(user_repo, token_repo).execute(email, password)
ExecuteLogin(email, password) ==
    /\ Cardinality(refresh_tokens) < MaxLogins
    /\ LET r == LoginUserUseCase(users, refresh_tokens, email, password, Now)
       IN  /\ refresh_tokens' = r.refresh_tokens
           /\ response' = [AuthEntered("usecase", "login", email, password,
                                       "")
                               EXCEPT !.out = r.out, !.detail = r.detail,
                                      !.value = r.value]
    /\ UNCHANGED <<users, authFrame>>

\* POST /auth/login
login(email, password) ==
    /\ Cardinality(refresh_tokens) < MaxLogins
    /\ LET r == LoginUserUseCase(users, refresh_tokens, email, password, Now)
       IN  /\ refresh_tokens' = r.refresh_tokens
           /\ response' =
                 [AuthEntered("http", "login", email, password, "")
                     EXCEPT !.out = r.out, !.detail = r.detail,
                            !.value = r.value,
                            !.status = CASE r.out = "ok" -> 200
                                         [] r.out = "ValueError" -> 401
                                         [] OTHER -> 500]
    /\ UNCHANGED <<users, authFrame>>

NextAuth ==
    \/ \E e \in Emails, p \in Passwords, n \in Names, id \in UserIds :
           /\ \A u \in users : u.id # id
           /\ ExecuteRegister(e, p, n, id)
    \/ \E e \in Emails, p \in Passwords, n \in Names, id \in UserIds :
           /\ \A u \in users : u.id # id
           /\ register(e, p, n, id)
    \/ \E e \in Emails, p \in Passwords : ExecuteLogin(e, p)
    \/ \E e \in Emails, p \in Passwords : login(e, p)

SpecAuth == Init /\ [][NextAuth]_vars

-----------------------------------------------------------------------------
(* Properties of the sequential specification.                              *)

Min(a, b) == IF a <= b THEN a ELSE b

\* The positions of the index entries stored under handle h.
EntriesOf(ix, h) == {p \in 1..Len(ix) : ix[p].id = h}

\* The positions of the index entries that were saved for document d.
SavedFor(ix, d) == {p \in 1..Len(ix) : ix[p].doc = d}

\* The positions of the index entries that a search resolves to document d.
ResolvingTo(ix, rs, d) ==
    {p \in 1..Len(ix) :
        HasRowid(rs, ix[p].id) /\ SelectByRowid(rs, ix[p].id).id = d}

\* Entry p holds the vector of the latest save of a document that has a row.
Current(ix, rs, p) ==
    /\ HasRow(rs, ix[p].doc)
    /\ \A p2 \in SavedFor(ix, ix[p].doc) : p2 <= p

Searched == lastCall.op = "find_similar" /\ lastCall.out = "ok"

\* C1: after completed save and delete calls every row has exactly one vector
\* entry under its handle and every vector entry has a row.
C1_Coherent ==
    /\ \A r \in documents : Cardinality(EntriesOf(index, r.rowid)) = 1
    /\ \A p \in 1..Len(index) : HasRowid(documents, index[p].id)

\* C2: a document that has a row has exactly one row and exactly one vector
\* entry resolving to it, and no find_similar result is produced by a vector
\* that a later save of its document has replaced.
C2_ReplaceCoherent ==
    /\ \A d \in DocIds :
          HasRow(documents, d) =>
              /\ Cardinality({r \in documents : r.id = d}) = 1
              /\ Cardinality(ResolvingTo(index, documents, d)) = 1
    /\ Searched =>
          \A i \in 1..Len(lastCall.res) :
              Current(index, documents, lastCall.res[i].pos)

\* C3: every find_similar result names a document that has a row and carries
\* that row's content, and there are at most top_k results.
C3_ResultsAreLiveRows ==
    lastCall.op = "find_similar" =>
        /\ Len(lastCall.res) <= lastCall.k
        /\ \A i \in 1..Len(lastCall.res) :
              \E r \in documents : /\ r.id = lastCall.res[i].id
                              /\ r.content = lastCall.res[i].content

\* C3 witness: a search with top_k = 2 over two stored vectors returns only
\* the one whose row still exists; the hit without a row is left out.
C3_Witness ==
    /\ lastCall.op = "find_similar"
    /\ lastCall.k = 2
    /\ Len(index) = 2
    /\ \E e \in 1..2 : ~HasRowid(documents, index[e].id)
    /\ Len(lastCall.res) = 1
    /\ HasRow(documents, lastCall.res[1].id)

\* C4: find_similar's results are in non-decreasing distance order and there
\* are min(top_k, number of live documents) of them.
C4_OrderedAndFull ==
    Searched =>
        /\ \A i \in 1..Len(lastCall.res), j \in 1..Len(lastCall.res) :
              i <= j => lastCall.res[i].score <= lastCall.res[j].score
        /\ Len(lastCall.res) = Min(lastCall.k, Cardinality(documents))

\* C5: after the second of two delete(id) calls in a row, which raises
\* nothing, no row of id and no vector ever saved for id is left, in the
\* table, the index or the index file.
C5_DeleteLeavesNoTrace ==
    lastCall.op = "delete" /\ lastCall.again =>
        /\ lastCall.out = "ok"
        /\ ~HasRow(documents, lastCall.id)
        /\ SavedFor(index, lastCall.id) = {}
        /\ SavedFor(_load_or_create_index(index_file), lastCall.id) = {}

SameSearches(ix1, ix2) ==
    \A q \in Embeddings, k \in TopKs :
        find_similar(ix1, documents, q, k) = find_similar(ix2, documents, q, k)

\* C8: once save or delete has returned, the index a new repository loads
\* from the file answers every search as the running one does, and after a
\* restart every search is answered as before it.
C8_RestartPreserves ==
    /\ lastCall.op \in {"save", "delete"} /\ lastCall.out = "ok" =>
          SameSearches(_load_or_create_index(index_file), index)
    /\ lastCall.op = "restart" => SameSearches(index, lastCall.pre)

\* C8 witness: a restart with documents stored.
C8_Witness ==
    /\ lastCall.op = "restart"
    /\ Len(index) = 2
    /\ documents # {}

\* C9: find_by_id of a saved document returns a document with the content
\* that was saved.
C9_RoundTrip ==
    lastCall.op = "find_by_id" /\ HasRow(documents, lastCall.id) =>
        /\ lastCall.out = "ok"
        /\ lastCall.content = RowOf(documents, lastCall.id).content

\* The pairs index.search reports for the last find_similar call.
LastHits == search(index, AsFloat32(lastCall.q), lastCall.k)

\* C10: find_similar raises only for a malformed query, never for the state
\* of the stores; on an empty index it returns the empty sequence; a hit whose
\* handle has no row is left out and every hit whose handle has a row is
\* returned.
C10_TolerantRead ==
    lastCall.op = "find_similar" =>
        /\ lastCall.out = "ok" \/ Len(lastCall.q) # dimension
        /\ ntotal(index) = 0 => lastCall.out = "ok" /\ lastCall.res = <<>>
        /\ lastCall.out = "ok" /\ ntotal(index) > 0 =>
              /\ \A i \in 1..Min(lastCall.k, ntotal(index)) :
                    HasRowid(documents, LastHits[i].label) =>
                        \E j \in 1..Len(lastCall.res) :
                            lastCall.res[j].pos = LastHits[i].pos
              /\ \A j \in 1..Len(lastCall.res) :
                    HasRowid(documents, index[lastCall.res[j].pos].id)

\* C10 witness: the nearest hit has no row and the next one is returned.
C10_Witness ==
    /\ Searched
    /\ ntotal(index) = 2
    /\ lastCall.k = 2
    /\ ~HasRowid(documents, LastHits[1].label)
    /\ Len(lastCall.res) = 1
    /\ lastCall.res[1].pos = LastHits[2].pos

-----------------------------------------------------------------------------
(* Properties of the concurrent specification.                              *)

Returned(p, op) == req[p].pc = "done" /\ req[p].op = op /\ req[p].out = "ok"

\* Document d has a row and the index file holds a vector under its handle.
Persisted(d) ==
    /\ HasRow(documents, d)
    /\ EntriesOf(_load_or_create_index(index_file),
                 RowOf(documents, d).rowid) # {}

\* C6: when the only two requests so far are saves of different documents and
\* both have returned, both documents have a row and a vector in the index
\* file.
C6_NoLostSave ==
    \A p \in Procs, o \in Procs :
        /\ nreq = 2
        /\ Returned(p, "save")
        /\ Returned(o, "save")
        /\ req[p].id # req[o].id
        => Persisted(req[p].id) /\ Persisted(req[o].id)

\* C7: no delete reads the handle of a document, and no find_similar looks
\* up the handle a document had, while a save of that document by another
\* request has committed its row and not yet written its vector to the index
\* file.
C7_MutualExclusion == \A p \in Procs : ~req[p].sawHalf

-----------------------------------------------------------------------------
(* Properties of the handles (Spec, SpecInputs).                            *)

\* C11: a save and a find_similar given a vector whose length is not the
\* index dimension fail with the dimension error of the index.
C11_DimensionEnforced ==
    lastCall.op \in {"save", "find_similar"} /\ lastCall.len # dimension =>
        lastCall.out = "AssertionError"

\* C17: a save of a document that already has a row keeps the handle the
\* document had: the row is under it, with the new content, and the new
\* vector is added under it.
C17_SameHandleOnReplace ==
    lastCall.op = "save" /\ lastCall.out = "ok" /\ lastCall.old # 0 =>
        /\ lastCall.h = lastCall.old
        /\ RowOf(documents, lastCall.id).rowid = lastCall.old
        /\ index[Len(index)].id = lastCall.old

\* C18: no two entries of the index carry the same handle.
C18_UniqueHandles ==
    \A p \in 1..Len(index), p2 \in 1..Len(index) :
        index[p].id = index[p2].id => p = p2

-----------------------------------------------------------------------------
(* Properties of the specification with crashes (SpecCrash).                *)

\* The index a restarted process loads.
Loaded == _load_or_create_index(index_file)

\* C19: once a save or a delete of a document has returned, whatever crash
\* came before it, the table and the index file agree on the document (its
\* row, if it has one, has a vector in the file under its handle, and every
\* vector in the file that was saved for it has a row), and no vector in the
\* file resolves to the row of a document it was not saved for.
C19_SelfHealing ==
    \A p \in Procs :
        Returned(p, "save") \/ Returned(p, "delete") =>
            /\ HasRow(documents, req[p].id) =>
                  EntriesOf(Loaded, RowOf(documents, req[p].id).rowid) # {}
            /\ \A e \in SavedFor(Loaded, req[p].id) :
                  HasRowid(documents, Loaded[e].id)
            /\ \A e \in 1..Len(Loaded) :
                  HasRowid(documents, Loaded[e].id) =>
                      SelectByRowid(documents, Loaded[e].id).id = Loaded[e].doc

\* C20: once the save that repeats a save killed after its commit has
\* returned, the document has exactly one row, the file holds exactly one
\* vector saved for it, under the row's handle, and a search for its vector
\* over the whole index returns it.
C20_RetryRestores ==
    \A p \in Procs :
        Returned(p, "save") /\ req[p].retry =>
            /\ Cardinality({r \in documents : r.id = req[p].id}) = 1
            /\ Cardinality(SavedFor(Loaded, req[p].id)) = 1
            /\ SavedFor(Loaded, req[p].id)
                  = EntriesOf(Loaded, RowOf(documents, req[p].id).rowid)
            /\ \E i \in 1..Len(Loaded) :
                  LET res == find_similar(Loaded, documents, req[p].emb,
                                          Len(Loaded)).res
                  IN  i <= Len(res) /\ res[i].id = req[p].id

-----------------------------------------------------------------------------
(* Properties of the use cases and the document endpoints (SpecApi).        *)

\* The step leaves the table and the index file as they were.
StoresUnchanged ==
    /\ documents' = documents
    /\ index_file' = index_file

C13_EmbeddingFailurePropagates ==
    [][/\ response'.op \in {"index", "search"}
       /\ ~response'.embed_ok
       /\ response'.status \notin {401, 422}
       => /\ response'.out = "EmbeddingError"
          /\ response'.id = ""
          /\ response'.value = <<>>
          /\ response'.calls = <<>>
          /\ StoresUnchanged]_vars

\* C13 witness: the index use case raises the embedding service's error
\* while a document is stored.
C13_Witness ==
    /\ response.layer = "usecase"
    /\ response.op = "index"
    /\ response.content # ""
    /\ ~response.embed_ok
    /\ response.out = "EmbeddingError"
    /\ documents # {}

-----------------------------------------------------------------------------
(* Properties of registration and login (SpecAuth).                         *)

\* The call the step makes passed the endpoint's validation (a use case has
\* none).
Validated == response'.status # 422

\* C15: no two rows of users share an email, and a registration with an
\* email that has a row fails with "El email ya está en uso." and leaves the
\* table as it was.
C15_UniqueEmail ==
    [][/\ \A u \in users', v \in users' : u.email = v.email => u = v
       /\ /\ response'.op = "register"
          /\ Validated
          /\ find_by_email(users, response'.email) # {}
          => /\ response'.out = "ValueError"
             /\ response'.detail = EmailInUse
             /\ response'.id = ""
             /\ users' = users]_vars

\* C15 witness: a registration under another name and password with the
\* email of a stored user has failed.
C15_Witness ==
    /\ response.op = "register"
    /\ response.detail = EmailInUse
    /\ \E u \in users :
          /\ u.email = response.email
          /\ u.name # response.name
          /\ u.hashed_password # get_password_hash(response.password)

\* The login of the step is one of a stored user with that user's password.
GoodLogin ==
    /\ response'.op = "login"
    /\ \E u \in users :
          /\ u.email = response'.email
          /\ verify_password(response'.password, u.hashed_password)

\* C16: a login with an unknown email and a login with a wrong password fail
\* with the same "Credenciales inválidas." and store nothing; a refresh
\* token is stored only by a login with a stored email and its password,
\* which returns an access token, the refresh token it stored and the user.
C16_LoginStoresToken ==
    [][/\ response'.op = "login" /\ ~GoodLogin =>
             /\ response'.out = "ValueError"
             /\ response'.detail = InvalidCredentials
             /\ response'.value = <<>>
             /\ refresh_tokens' = refresh_tokens
       /\ refresh_tokens' # refresh_tokens => GoodLogin
       /\ GoodLogin =>
             /\ response'.out = "ok"
             /\ Len(response'.value) = 3
             /\ response'.value[1].type = "access"
             /\ response'.value[2].type = "refresh"
             /\ response'.value[3] \in users
             /\ response'.value[3].email = response'.email
             /\ refresh_tokens' =
                   refresh_tokens
                       \cup {[token |-> response'.value[2],
                              user_id |-> response'.value[3].id]}
             /\ refresh_tokens' # refresh_tokens]_vars

\* C16 witness: a login of a stored user with a wrong password has failed
\* after a login that stored a token.
C16_Witness ==
    /\ response.op = "login"
    /\ response.detail = InvalidCredentials
    /\ refresh_tokens # {}
    /\ \E u \in users :
          /\ u.email = response.email
          /\ ~verify_password(response.password, u.hashed_password)

-----------------------------------------------------------------------------
(* Order of the writes (SpecCrash) and delete without a row (Spec).         *)

\* The step is request p's _save_index, after which it returns.
Snapshots(p) ==
    /\ req[p].pc = "snapshot"
    /\ req'[p].pc = "done"
    /\ req'[p].out = "ok"

\* C21: the index file changes only in the _save_index of a save or a
\* delete, and when it is written the request's change of the table is
\* committed: a save's row is in the table under the handle of the vector
\* the file gains, a delete's row is gone from the table and the file holds
\* no vector under its handle.
C21_CommitBeforeSnapshot ==
    [][/\ index_file' # index_file => \E p \in Procs : Snapshots(p)
       /\ \A p \in Procs :
             Snapshots(p) =>
                 /\ index_file' = _save_index(req[p].index)
                 /\ req[p].op = "save" =>
                       /\ [rowid |-> req[p].h, id |-> req[p].id,
                            content |-> req[p].content] \in documents
                       /\ Loaded'[Len(Loaded')].id = req[p].h
                       /\ Loaded'[Len(Loaded')].doc = req[p].id
                 /\ req[p].op = "delete" =>
                       /\ ~HasRow(documents, req[p].id)
                       /\ ~HasRowid(documents, req[p].h)
                       /\ EntriesOf(Loaded', req[p].h) = {}]_vars

\* C21 witness: a delete that found a row has written the index file, which
\* still holds the vector of another document.
C21_Witness ==
    \E p \in Procs :
        /\ Returned(p, "delete")
        /\ req[p].h # 0
        /\ Loaded # <<>>
        /\ documents # {}

\* C22: a delete of an id that has no row raises nothing and leaves the
\* table, the index in memory and the index file as they were.
C22_DeleteAbsentIsNoOp ==
    [][lastCall'.op = "delete" /\ ~HasRow(documents, lastCall'.id) =>
          /\ lastCall'.out = "ok"
          /\ documents' = documents
          /\ index' = index
          /\ index_file' = index_file]_vars

\* C22 witness: the second of two deletes of one id in a row has returned
\* while another document is stored.
C22_Witness ==
    /\ lastCall.op = "delete"
    /\ lastCall.again
    /\ lastCall.out = "ok"
    /\ documents # {}
    /\ index # <<>>

=============================================================================
